---------------------------- MODULE Spec2Model ----------------------------
(***************************************************************************)
(* Airgead Banking web application (src/app.js).                           *)
(*                                                                         *)
(* The calculator works on JavaScript Numbers, i.e. IEEE 754 binary64      *)
(* values.  They are modelled bit-exactly: a finite value is a 53-bit      *)
(* significand and an exponent, every operation rounds to nearest, ties to *)
(* even, and overflows to Infinity; Infinity * 0 is NaN.  Significands do  *)
(* not fit the model checker's integers, so they are kept as little-endian *)
(* sequences of 15-bit limbs.                                              *)
(***************************************************************************)
EXTENDS Integers, Sequences, FiniteSets, TLC

\* ------------------------------------------------------------------------
\* Natural numbers of any size: little-endian limb sequences, no leading
\* zero limb, <<>> for zero.
\* ------------------------------------------------------------------------

LimbBase == 2^15

RECURSIVE BitLenNat(_)
BitLenNat(n) == IF n = 0 THEN 0 ELSE 1 + BitLenNat(n \div 2)

\* the bits of a limb
LimbBits == BitLenNat(LimbBase - 1)

Min2(a, b) == IF a <= b THEN a ELSE b

Max2(a, b) == IF a >= b THEN a ELSE b

RECURSIVE BNorm(_)
BNorm(a) ==
    IF a = <<>> THEN a
    ELSE IF a[Len(a)] = 0 THEN BNorm(SubSeq(a, 1, Len(a) - 1))
    ELSE a

RECURSIVE BFromNat(_)
BFromNat(n) ==
    IF n = 0 THEN <<>> ELSE <<n % LimbBase>> \o BFromNat(n \div LimbBase)

RECURSIVE BToNat(_)
BToNat(a) ==
    IF a = <<>> THEN 0 ELSE Head(a) + LimbBase * BToNat(Tail(a))

RECURSIVE BAddC(_, _, _)
BAddC(a, b, c) ==
    IF a = <<>> /\ b = <<>> THEN (IF c = 0 THEN <<>> ELSE <<c>>)
    ELSE LET x == IF a = <<>> THEN 0 ELSE Head(a)
             y == IF b = <<>> THEN 0 ELSE Head(b)
             s == x + y + c
         IN  <<s % LimbBase>> \o
             BAddC(IF a = <<>> THEN a ELSE Tail(a),
                   IF b = <<>> THEN b ELSE Tail(b), s \div LimbBase)

BAdd(a, b) == BAddC(a, b, 0)

RECURSIVE BMulSmallC(_, _, _)
BMulSmallC(a, k, c) ==
    IF a = <<>> THEN (IF c = 0 THEN <<>> ELSE <<c>>)
    ELSE LET p == Head(a) * k + c
         IN  <<p % LimbBase>> \o BMulSmallC(Tail(a), k, p \div LimbBase)

\* a * k for 0 <= k < LimbBase
BMulSmall(a, k) == BNorm(BMulSmallC(a, k, 0))

RECURSIVE BMul(_, _)
BMul(a, b) ==
    IF a = <<>> \/ b = <<>> THEN <<>>
    ELSE BNorm(BAdd(BMulSmall(a, Head(b)), <<0>> \o BMul(a, Tail(b))))

\* [q, r] with a = q * d + r, for 0 < d <= LimbBase; most significant limb first
RECURSIVE BDivSmallR(_, _, _, _)
BDivSmallR(a, d, i, acc) ==
    IF i = 0 THEN acc
    ELSE LET cur == acc.r * LimbBase + a[i]
         IN  BDivSmallR(a, d, i - 1,
                        [q |-> <<cur \div d>> \o acc.q, r |-> cur % d])

BDivSmall(a, d) ==
    LET res == BDivSmallR(a, d, Len(a), [q |-> <<>>, r |-> 0])
    IN  [q |-> BNorm(res.q), r |-> res.r]

Zeros(n) == [i \in 1..n |-> 0]

\* a * 2^n
BShl(a, n) ==
    IF a = <<>> THEN a
    ELSE Zeros(n \div LimbBits) \o BMulSmall(a, 2^(n % LimbBits))

\* floor(a / 2^n)
BShr(a, n) ==
    LET k == n \div LimbBits
    IN  IF k >= Len(a) THEN <<>>
        ELSE BDivSmall(SubSeq(a, k + 1, Len(a)), 2^(n % LimbBits)).q

\* a mod 2^n # 0
BLowBits(a, n) ==
    LET k == n \div LimbBits
    IN  \/ \E i \in 1..Min2(k, Len(a)) : a[i] # 0
        \/ k < Len(a) /\ a[k + 1] % (2^(n % LimbBits)) # 0

\* bit n (bit 0 is the least significant)
BBit(a, n) ==
    LET k == n \div LimbBits
    IN  IF k >= Len(a) THEN 0 ELSE (a[k + 1] \div 2^(n % LimbBits)) % 2

BBitLen(a) ==
    IF a = <<>> THEN 0 ELSE LimbBits * (Len(a) - 1) + BitLenNat(a[Len(a)])

\* -1, 0, 1 as a < b, a = b, a > b
RECURSIVE BCmpFrom(_, _, _)
BCmpFrom(a, b, i) ==
    IF i = 0 THEN 0
    ELSE IF a[i] < b[i] THEN -1
    ELSE IF a[i] > b[i] THEN 1
    ELSE BCmpFrom(a, b, i - 1)

BCmp(a, b) ==
    IF Len(a) < Len(b) THEN -1
    ELSE IF Len(a) > Len(b) THEN 1
    ELSE BCmpFrom(a, b, Len(a))

\* ------------------------------------------------------------------------
\* IEEE 754 binary64.  [k |-> "nan"], [k |-> "inf", s |-> sign], or
\* [k |-> "fin", s |-> sign, m |-> significand, e |-> exponent] of value
\* (-1)^s * m * 2^e, kept canonical: m has exactly MantBits bits, or
\* e = EMin (subnormal and zero).
\* ------------------------------------------------------------------------

MantBits == 53

EMin == -1074

EMax == 971

NaN == [k |-> "nan"]

Infinity == [k |-> "inf", s |-> 0]

NegInfinity == [k |-> "inf", s |-> 1]

Fin(m, e) == [k |-> "fin", s |-> 0, m |-> m, e |-> e]

Zero == Fin(<<>>, EMin)

\* m * 2^e (plus, with sticky, a positive amount below one unit of m) rounded
\* to nearest, ties to even
Round(m, e, sticky) ==
    LET len   == BBitLen(m)
        shift == Max2(len - MantBits, EMin - e)
    IN  IF shift <= 0
        THEN LET up == Min2(MantBits - len, e - EMin)
             IN  IF m = <<>> THEN Zero ELSE Fin(BShl(m, up), e - up)
        ELSE LET q     == BShr(m, shift)
                 half  == BBit(m, shift - 1) = 1
                 low   == sticky \/ BLowBits(m, shift - 1)
                 odd   == BBit(q, 0) = 1
                 q1    == IF half /\ (low \/ odd) THEN BAdd(q, <<1>>) ELSE q
                 carry == BBitLen(q1) > MantBits
                 q2    == IF carry THEN BShr(q1, 1) ELSE q1
                 e2    == IF carry THEN e + shift + 1 ELSE e + shift
             IN  IF e2 > EMax THEN Infinity ELSE Fin(q2, e2)

\* x + y for x, y >= 0
FAdd(x, y) ==
    IF x.k = "nan" \/ y.k = "nan" THEN NaN
    ELSE IF x.k = "inf" \/ y.k = "inf" THEN Infinity
    ELSE LET big   == IF x.e >= y.e THEN x ELSE y
             small == IF x.e >= y.e THEN y ELSE x
             d     == big.e - small.e
         IN  IF d > MantBits + 2
             THEN Round(BShl(big.m, 2), big.e - 2, small.m # <<>>)
             ELSE Round(BAdd(BShl(big.m, d), small.m), small.e, FALSE)

\* x * y for x, y >= 0
FMul(x, y) ==
    IF x.k = "nan" \/ y.k = "nan" THEN NaN
    ELSE IF x.k = "inf" \/ y.k = "inf"
         THEN (IF (x.k = "fin" /\ x.m = <<>>) \/ (y.k = "fin" /\ y.m = <<>>)
               THEN NaN ELSE Infinity)
    ELSE Round(BMul(x.m, y.m), x.e + y.e, FALSE)

\* extra bits of the dividend, so that the quotient has more than MantBits bits
GuardBits == MantBits + LimbBits

\* x / d for x >= 0 and a whole number 0 < d <= LimbBase
FDivNat(x, d) ==
    IF x.k = "nan" THEN NaN
    ELSE IF x.k = "inf" THEN Infinity
    ELSE LET qr == BDivSmall(BShl(x.m, GuardBits), d)
         IN  Round(qr.q, x.e - GuardBits, qr.r # 0)

\* the Number of a whole number n >= 0
FromNat(n) == Round(BFromNat(n), 0, FALSE)

IsNaN(x) == x.k = "nan"

IsFinite(x) == x.k = "fin"

IsZero(x) == x.k = "fin" /\ x.m = <<>>

\* x < y as JavaScript compares Numbers (false when either is NaN)
FLt(x, y) ==
    IF x.k = "nan" \/ y.k = "nan" THEN FALSE
    ELSE IF IsZero(x) /\ IsZero(y) THEN FALSE
    ELSE IF x.s # y.s THEN x.s = 1
    ELSE LET magLt(a, b) ==
                 IF a.k = "inf" THEN FALSE
                 ELSE IF b.k = "inf" THEN TRUE
                 ELSE a.e < b.e \/ (a.e = b.e /\ BCmp(a.m, b.m) < 0)
         IN  IF x.s = 0 THEN magLt(x, y) ELSE magLt(y, x)

\* x === y
FEq(x, y) ==
    IF x.k = "nan" \/ y.k = "nan" THEN FALSE
    ELSE (IsZero(x) /\ IsZero(y)) \/ x = y

FLe(x, y) == FLt(x, y) \/ FEq(x, y)

\* -x
FNeg(x) == IF x.k = "nan" THEN x ELSE [x EXCEPT !.s = 1 - x.s]

\* Number.isInteger(x)
IsInteger(x) ==
    /\ x.k = "fin"
    /\ (x.m = <<>> \/ x.e >= 0 \/ ~BLowBits(x.m, -x.e))

\* the value of a whole Number x that fits the model checker's integers
ToNat(x) ==
    IF x.m = <<>> THEN 0
    ELSE IF x.e >= 0 THEN BToNat(BShl(x.m, x.e))
    ELSE BToNat(BShr(x.m, -x.e))

\* ------------------------------------------------------------------------
\* Number.prototype.toFixed(2), as money() uses it
\* ------------------------------------------------------------------------

\* 1e21, from which toFixed falls back to ToString
TenTo21 == FMul(FMul(FromNat(1000000000), FromNat(1000000000)), FromNat(1000))

\* the whole number n for which n / 100 is closest to x, the larger on a tie
Cents(x) ==
    IF x.m = <<>> THEN <<>>
    ELSE IF x.e >= 0 THEN BShl(BMulSmall(x.m, 100), x.e)
    ELSE BShr(BAdd(BMulSmall(x.m, 200), BShl(<<1>>, -x.e)), 1 - x.e)

\* money(n): the text shown, as the number of cents it spells
money(n) ==
    IF n.k = "nan" THEN [k |-> "NaN"]
    ELSE IF n.k = "inf" THEN [k |-> "Infinity"]
    ELSE IF FLe(TenTo21, n) THEN [k |-> "ToString", v |-> n]
    ELSE [k |-> "fixed", cents |-> Cents(n)]

\* ------------------------------------------------------------------------
\* Inputs
\* ------------------------------------------------------------------------

MaxYears == 2

\* 1e17: one unit in its last place is 16
TenTo17 == FMul(FromNat(100000000), FromNat(1000000000))

\* Number.MAX_VALUE
MaxValue == Fin(<<LimbBase - 1, LimbBase - 1, LimbBase - 1, 2^8 - 1>>, EMax)

OneAndAHalf == FDivNat(FromNat(3), 2)

InitialValues ==
    {Zero, FromNat(1000), TenTo17, MaxValue, Infinity, NaN, FNeg(FromNat(1))}

MonthlyValues ==
    {Zero, FromNat(1), FromNat(100), MaxValue, NaN, FNeg(FromNat(100))}

RateValues == {Zero, FromNat(5), FromNat(75), NegInfinity}

YearsValues ==
    {FromNat(y) : y \in 1..MaxYears}
        \cup {Zero, OneAndAHalf, Infinity, NaN, FNeg(FromNat(2))}

Form(i, m, r, y) == [initial |-> i, monthly |-> m, rate |-> r, years |-> y]

\* no inputs held
NoInputs == Form(Zero, Zero, Zero, Zero)

\* the values the Reset button writes
ResetForm == Form(FromNat(1000), FromNat(100), FromNat(5), FromNat(5))

CalcForms ==
    {Form(i, m, r, y) : i \in InitialValues, m \in MonthlyValues,
                        r \in RateValues, y \in YearsValues}

\* ------------------------------------------------------------------------
\* State
\* ------------------------------------------------------------------------

VARIABLES
    form,            \* the four form fields, as Number() reads them
    error,           \* text of the "error" element
    noDepBody,       \* rows of the table without deposits
    depBody,         \* rows of the table with deposits
    pc,              \* "idle", or "loop" inside calculateSchedule
    caller,          \* who runs runCalculation: "submit" or "startup"
    call,            \* the parameters of the running calculateSchedule call
    month,           \* calculateSchedule's locals
    openingBalance,
    interestSoFar,
    year,
    results,
    noDep,           \* runCalculation's local: the first call's result
    interestLog,     \* history: the interest of every month of the running call
    investments,     \* the in-memory collection of saved scenarios
    nextId,
    usingDatabase,
    localStore,      \* localStorage[LOCAL_KEY]: <<>>, or <<the list stored>>
    db,              \* rows of the remote table "investments"
    session,         \* whether the Supabase client holds a session
    authUi,          \* what setAuthUi last showed: logged in or not
    authStatus,      \* text of the "authStatus" element
    startPc,         \* the DOMContentLoaded handler
    savePc,          \* the pending saveScenarioBtn handler
    saveInputs,      \*   and its local "parsed"
    loginPc,         \* the pending loginBtn handler
    logoutPc,        \* the pending logoutBtn handler
    registerPc,      \* the pending registerBtn handler
    clock            \* time, as new Date() and the server's created_at read it

calcVars ==
    <<form, error, noDepBody, depBody, pc, caller, call, month,
      openingBalance, interestSoFar, year, results, noDep, interestLog>>

loopVars ==
    <<call, month, openingBalance, interestSoFar, year, results, noDep,
      interestLog>>

storeVars ==
    <<investments, nextId, usingDatabase, localStore, db, session, authUi,
      authStatus, clock>>

handlerVars == <<startPc, savePc, saveInputs, loginPc, logoutPc, registerPc>>

vars == <<calcVars, storeVars, handlerVars>>

\* ------------------------------------------------------------------------
\* The calculator
\* ------------------------------------------------------------------------

NoCall ==
    [initialInvestment |-> Zero, monthlyDeposit |-> Zero,
     annualInterestRate |-> Zero, years |-> 0, withDeposit |-> FALSE]

\* readInputs(): the message of the first check that fails, "" when none does
readInputs(f) ==
    IF IsNaN(f.initial) \/ IsNaN(f.monthly) \/ IsNaN(f.rate) \/ IsNaN(f.years)
    THEN "Invalid input. Please enter numeric values."
    ELSE IF FLt(f.initial, Zero) \/ FLt(f.monthly, Zero) \/ FLt(f.rate, Zero)
    THEN "Invalid input. Please enter non-negative values."
    ELSE IF ~IsInteger(f.years) \/ FLe(f.years, Zero)
    THEN "Invalid input. Please enter a whole number of years greater than 0."
    ELSE ""

\* mutants of deposit: the flag read the wrong way round; the flag ignored
depositInverted(c) == IF c.withDeposit THEN Zero ELSE c.monthlyDeposit

depositAlways(c) == c.monthlyDeposit

\* const deposit = withDeposit ? monthlyDeposit : 0.0
deposit(c) == IF c.withDeposit THEN c.monthlyDeposit ELSE Zero

\* (annualInterestRate / 100.0) / 12.0
monthlyRate(c) == FDivNat(FDivNat(c.annualInterestRate, 100), 12)

\* mutant of interest: taken on the balance before the deposit
interestBeforeDeposit(c, opening) == FMul(opening, monthlyRate(c))

\* (openingBalance + deposit) * ((annualInterestRate / 100.0) / 12.0)
interest(c, opening) == FMul(FAdd(opening, deposit(c)), monthlyRate(c))

\* (openingBalance + deposit) + interest
closingBalance(c, opening) ==
    FAdd(FAdd(opening, deposit(c)), interest(c, opening))

\* mutant of accrued: "=" for "+="
accruedOverwritten(soFar, amount) == amount

\* interestSoFar += interest
accrued(soFar, amount) == FAdd(soFar, amount)

\* mutant of endOfYear: the test of a loop that counts months from 0
endOfYearFromZero(m) == m % 12 = 11

\* month % 12 === 0
endOfYear(m) == m % 12 = 0

totalMonths(c) == c.years * 12

\* the entry of calculateSchedule: its locals before the first month
EnterCalculateSchedule(f, withDeposit) ==
    /\ call' = [initialInvestment |-> f.initial, monthlyDeposit |-> f.monthly,
                annualInterestRate |-> f.rate, years |-> ToNat(f.years),
                withDeposit |-> withDeposit]
    /\ month' = 1
    /\ openingBalance' = f.initial
    /\ interestSoFar' = Zero
    /\ year' = 1
    /\ results' = <<>>
    /\ interestLog' = <<>>

\* renderRows(tbody, rows)
renderRows(rows) ==
    [i \in 1..Len(rows) |->
        [year |-> rows[i].year,
         balance |-> money(rows[i].yearEndBalance),
         interest |-> money(rows[i].yearEndInterest)]]

\* ------------------------------------------------------------------------
\* The saved scenarios
\* ------------------------------------------------------------------------

MaxClock == 2

Null == [k |-> "null"]

\* isValidInputs(inputs)
isValidInputs(inputs) ==
    /\ IsFinite(inputs.initial) /\ ~FLt(inputs.initial, Zero)
    /\ IsFinite(inputs.monthly) /\ ~FLt(inputs.monthly, Zero)
    /\ IsFinite(inputs.rate) /\ ~FLt(inputs.rate, Zero)
    /\ IsFinite(inputs.years) /\ ~FLe(inputs.years, Zero)

\* JSON.parse(JSON.stringify(x)) of a Number: what is not finite comes back null
jsonNumber(x) == IF IsFinite(x) THEN x ELSE Null

\* saveLocalInvestments(list): what localStorage then holds, parsed
saveLocalInvestments(list) ==
  << [i \in 1..Len(list) |->
        [id |-> list[i].id,
         initial |-> jsonNumber(list[i].initial),
         monthly |-> jsonNumber(list[i].monthly),
         rate |-> jsonNumber(list[i].rate),
         years |-> jsonNumber(list[i].years),
         createdAt |-> list[i].createdAt]] >>

\* loadLocalInvestments(): [] when nothing was stored
loadLocalInvestments(store) == IF store = <<>> THEN <<>> ELSE store[1]

RECURSIVE maxIdOf(_)
maxIdOf(list) ==
    IF list = <<>> THEN 0 ELSE Max2(maxIdOf(Tail(list)), Head(list).id)

\* syncNextIdFromInvestments(): the new nextId
syncNextIdFromInvestments(list) == maxIdOf(list) + 1

\* the comparators: new Date(b.createdAt) - new Date(a.createdAt) < 0, and
\* b.initial - a.initial < 0
before(order, a, b) ==
    IF order = "date" THEN a.createdAt > b.createdAt
    ELSE FLt(b.initial, a.initial)

\* Array.prototype.sort is stable: x goes after the entries not behind it
RECURSIVE insertSorted(_, _, _)
insertSorted(sorted, x, order) ==
    IF sorted = <<>> THEN <<x>>
    ELSE IF before(order, x, Head(sorted)) THEN <<x>> \o sorted
    ELSE <<Head(sorted)>> \o insertSorted(Tail(sorted), x, order)

RECURSIVE sortBy(_, _)
sortBy(list, order) ==
    IF list = <<>> THEN <<>>
    ELSE insertSorted(sortBy(SubSeq(list, 1, Len(list) - 1), order),
                      list[Len(list)], order)

\* sortByDateDesc()
sortByDateDesc(list) == sortBy(list, "date")

\* sortByInitialDesc()
sortByInitialDesc(list) == sortBy(list, "initial")

\* loadInvestmentsFromDb(): the rows, newest first
loadInvestmentsFromDb(rows) == sortBy(rows, "date")

\* the row the server stores for saveInvestmentToDb(inputs)
dbRow(rows, inputs, now) ==
    [id |-> maxIdOf(rows) + 1, initial |-> inputs.initial,
     monthly |-> inputs.monthly, rate |-> inputs.rate, years |-> inputs.years,
     createdAt |-> now]

\* the entry saveInvestment pushes when saving locally
localEntry(id, inputs, now) ==
    [id |-> id, initial |-> inputs.initial, monthly |-> inputs.monthly,
     rate |-> inputs.rate, years |-> inputs.years, createdAt |-> now]

\* the forms tried with the Save button
SaveForms ==
    {Form(FromNat(1000), FromNat(100), FromNat(5), FromNat(1)),
     Form(FromNat(1000), FromNat(100), FromNat(5), OneAndAHalf),
     Form(Infinity, FromNat(100), Zero, FromNat(1)),
     Form(NaN, FromNat(100), FromNat(5), FromNat(1))}

\* what the remote table may hold when the page is first opened
InitialDbs ==
    {<<>>,
     <<[id |-> 1, initial |-> FromNat(5000), monthly |-> Zero,
        rate |-> FromNat(5), years |-> FromNat(1), createdAt |-> 0]>>}

\* ------------------------------------------------------------------------
\* runCalculation
\* ------------------------------------------------------------------------

ClearLocals ==
    /\ call' = NoCall
    /\ month' = 0
    /\ openingBalance' = Zero
    /\ interestSoFar' = Zero
    /\ year' = 0
    /\ results' = <<>>
    /\ noDep' = <<>>
    /\ interestLog' = <<>>

\* runCalculation() is over.  At the end of the DOMContentLoaded handler,
\* sortByDateDesc() and renderInvestmentList() follow it.
Finish(who) ==
    /\ pc' = "idle"
    /\ caller' = "none"
    /\ IF who = "startup"
       THEN /\ investments' = sortByDateDesc(investments)
            /\ startPc' = "done"
            /\ UNCHANGED <<nextId, usingDatabase, localStore, db, session,
                           authUi, authStatus, clock>>
            /\ UNCHANGED <<savePc, saveInputs, loginPc, logoutPc, registerPc>>
       ELSE UNCHANGED <<storeVars, handlerVars>>

\* runCalculation() up to its first call of calculateSchedule
RunCalculation(who) ==
    LET msg == readInputs(form)
    IN  /\ error' = msg
        /\ UNCHANGED <<form, noDepBody, depBody>>
        /\ IF msg # ""
           THEN /\ Finish(who)
                /\ UNCHANGED loopVars
           ELSE /\ pc' = "loop"
                /\ caller' = who
                /\ noDep' = <<>>
                /\ EnterCalculateSchedule(form, FALSE)
                /\ UNCHANGED storeVars
                /\ UNCHANGED <<savePc, saveInputs, loginPc, logoutPc,
                               registerPc>>
                /\ startPc' = IF who = "startup" THEN "running" ELSE startPc

\* one turn of calculateSchedule's loop
Month ==
    /\ pc = "loop"
    /\ month <= totalMonths(call)
    /\ LET amount  == interest(call, openingBalance)
           soFar   == accrued(interestSoFar, amount)
           closing == closingBalance(call, openingBalance)
       IN  /\ interestLog' = Append(interestLog, amount)
           /\ IF endOfYear(month)
              THEN /\ results' = Append(results,
                                        [year |-> year,
                                         yearEndBalance |-> closing,
                                         yearEndInterest |-> soFar])
                   /\ year' = year + 1
                   /\ interestSoFar' = Zero
              ELSE /\ results' = results
                   /\ year' = year
                   /\ interestSoFar' = soFar
           /\ openingBalance' = closing
    /\ month' = month + 1
    /\ UNCHANGED <<form, error, noDepBody, depBody, pc, caller, call, noDep>>
    /\ UNCHANGED <<storeVars, handlerVars>>

\* calculateSchedule(..., false) returns; runCalculation calls it again with true
ReturnNoDep ==
    /\ pc = "loop"
    /\ month > totalMonths(call)
    /\ ~call.withDeposit
    /\ noDep' = results
    /\ EnterCalculateSchedule(form, TRUE)
    /\ UNCHANGED <<form, error, noDepBody, depBody, pc, caller>>
    /\ UNCHANGED <<storeVars, handlerVars>>

\* calculateSchedule(..., true) returns; runCalculation renders both tables
ReturnDep ==
    /\ pc = "loop"
    /\ month > totalMonths(call)
    /\ call.withDeposit
    /\ noDepBody' = renderRows(noDep)
    /\ depBody' = renderRows(results)
    /\ ClearLocals
    /\ Finish(caller)
    /\ UNCHANGED <<form, error>>

\* An event is handled, or a pending handler resumes, only when no script runs
\* and the DOMContentLoaded handler has registered the listeners.
Ready == pc = "idle" /\ startPc = "done"

\* the form's submit listener
Submit ==
    /\ Ready
    /\ RunCalculation("submit")

\* the Reset button's click listener
Reset ==
    /\ Ready
    /\ form' = ResetForm
    /\ error' = ""
    /\ noDepBody' = <<>>
    /\ depBody' = <<>>
    /\ UNCHANGED <<pc, caller, loopVars, storeVars, handlerVars>>

\* the last statements of the DOMContentLoaded handler: runCalculation(), ...
StartupRunCalculation ==
    /\ startPc = "calc"
    /\ pc = "idle"
    /\ RunCalculation("startup")

\* ------------------------------------------------------------------------
\* The DOMContentLoaded handler: the session check and the first load
\* ------------------------------------------------------------------------

\* the else branch and the catch block: local mode
StartLocal(status) ==
    /\ usingDatabase' = FALSE
    /\ authUi' = FALSE
    /\ authStatus' = status
    /\ investments' = loadLocalInvestments(localStore)
    /\ nextId' = syncNextIdFromInvestments(loadLocalInvestments(localStore))
    /\ startPc' = "calc"

\* await supabaseClient.auth.getSession() settles
StartupSession ==
    /\ startPc = "getSession"
    /\ \E outcome \in {"session", "none", "throws"} :
          /\ outcome = "session" => session
          /\ outcome = "none" => ~session
          /\ IF outcome = "session"
             THEN /\ usingDatabase' = TRUE
                  /\ authUi' = TRUE
                  /\ authStatus' = "Logged in. Saving to database."
                  /\ startPc' = "loadDb"
                  /\ UNCHANGED <<investments, nextId>>
             ELSE StartLocal(IF outcome = "none"
                             THEN "Not logged in. Saving locally."
                             ELSE "Auth unavailable. Saving locally.")
    /\ UNCHANGED <<localStore, db, session, clock>>
    /\ UNCHANGED <<savePc, saveInputs, loginPc, logoutPc, registerPc>>
    /\ UNCHANGED calcVars

\* investments = await loadInvestmentsFromDb() settles
StartupLoad ==
    /\ startPc = "loadDb"
    /\ \E ok \in BOOLEAN :
          IF ok
          THEN /\ investments' = loadInvestmentsFromDb(db)
               /\ startPc' = "calc"
               /\ UNCHANGED <<nextId, usingDatabase, authUi, authStatus>>
          ELSE StartLocal("Auth unavailable. Saving locally.")
    /\ UNCHANGED <<localStore, db, session, clock>>
    /\ UNCHANGED <<savePc, saveInputs, loginPc, logoutPc, registerPc>>
    /\ UNCHANGED calcVars

\* the page is loaded again: the script's state is lost, what is stored stays
Reload ==
    /\ pc = "idle"
    /\ error' = ""
    /\ noDepBody' = <<>>
    /\ depBody' = <<>>
    /\ investments' = <<>>
    /\ nextId' = 1
    /\ usingDatabase' = FALSE
    /\ authUi' = FALSE
    /\ authStatus' = ""
    /\ startPc' = "getSession"
    /\ savePc' = "idle"
    /\ saveInputs' = NoInputs
    /\ loginPc' = "idle"
    /\ logoutPc' = "idle"
    /\ registerPc' = "idle"
    /\ UNCHANGED <<form, pc, caller, loopVars>>
    /\ UNCHANGED <<localStore, db, session, clock>>

\* ------------------------------------------------------------------------
\* The Save button
\* ------------------------------------------------------------------------

\* the click listener up to its first await
ClickSave ==
    /\ Ready
    /\ savePc = "idle"
    /\ clock < MaxClock
    /\ IF ~isValidInputs(form)
       THEN UNCHANGED <<storeVars, savePc, saveInputs>>
       ELSE IF usingDatabase
       THEN /\ savePc' = "insert"
            /\ saveInputs' = form
            /\ UNCHANGED storeVars
       ELSE LET pushed == Append(investments,
                                 localEntry(nextId, form, clock + 1))
            IN  /\ investments' = sortByDateDesc(pushed)
                /\ localStore' = saveLocalInvestments(pushed)
                /\ nextId' = nextId + 1
                /\ clock' = clock + 1
                /\ UNCHANGED <<usingDatabase, db, session, authUi, authStatus>>
                /\ UNCHANGED <<savePc, saveInputs>>
    /\ UNCHANGED <<startPc, loginPc, logoutPc, registerPc>>
    /\ UNCHANGED calcVars

\* await saveInvestmentToDb(inputs) settles
SaveInserted ==
    /\ Ready
    /\ savePc = "insert"
    /\ \E ok \in BOOLEAN :
          IF ok
          THEN /\ db' = Append(db, dbRow(db, saveInputs, clock + 1))
               /\ clock' = clock + 1
               /\ savePc' = "loadDb"
               /\ UNCHANGED saveInputs
          ELSE /\ savePc' = "idle"
               /\ saveInputs' = NoInputs
               /\ UNCHANGED <<db, clock>>
    /\ UNCHANGED <<investments, nextId, usingDatabase, localStore, session,
                   authUi, authStatus>>
    /\ UNCHANGED <<startPc, loginPc, logoutPc, registerPc>>
    /\ UNCHANGED calcVars

\* investments = await loadInvestmentsFromDb() settles; then sortByDateDesc()
SaveLoaded ==
    /\ Ready
    /\ savePc = "loadDb"
    /\ \E ok \in BOOLEAN :
          investments' = IF ok THEN sortByDateDesc(loadInvestmentsFromDb(db))
                         ELSE investments
    /\ savePc' = "idle"
    /\ saveInputs' = NoInputs
    /\ UNCHANGED <<nextId, usingDatabase, localStore, db, session, authUi,
                   authStatus, clock>>
    /\ UNCHANGED <<startPc, loginPc, logoutPc, registerPc>>
    /\ UNCHANGED calcVars

\* the two sort buttons
SortDate ==
    /\ Ready
    /\ investments' = sortByDateDesc(investments)
    /\ UNCHANGED <<nextId, usingDatabase, localStore, db, session, authUi,
                   authStatus, clock>>
    /\ UNCHANGED <<handlerVars, calcVars>>

SortAmount ==
    /\ Ready
    /\ investments' = sortByInitialDesc(investments)
    /\ UNCHANGED <<nextId, usingDatabase, localStore, db, session, authUi,
                   authStatus, clock>>
    /\ UNCHANGED <<handlerVars, calcVars>>

\* ------------------------------------------------------------------------
\* The Register, Login and Logout buttons
\* ------------------------------------------------------------------------

\* setAuthUi(true) hides Login and Register, setAuthUi(false) hides Logout
ClickRegister ==
    /\ Ready
    /\ ~authUi
    /\ registerPc = "idle"
    /\ \E filled \in BOOLEAN :
          IF filled
          THEN registerPc' = "signUp" /\ UNCHANGED authStatus
          ELSE authStatus' = "Enter email and password."
                   /\ UNCHANGED registerPc
    /\ UNCHANGED <<investments, nextId, usingDatabase, localStore, db,
                   session, authUi, clock>>
    /\ UNCHANGED <<startPc, savePc, saveInputs, loginPc, logoutPc>>
    /\ UNCHANGED calcVars

\* await supabaseClient.auth.signUp(...) settles
Registered ==
    /\ Ready
    /\ registerPc = "signUp"
    /\ \E failed \in BOOLEAN :
          authStatus' = IF failed THEN "signUp: error.message"
                        ELSE "Registered. (Check email if confirmation is enabled.)"
    /\ registerPc' = "idle"
    /\ UNCHANGED <<investments, nextId, usingDatabase, localStore, db,
                   session, authUi, clock>>
    /\ UNCHANGED <<startPc, savePc, saveInputs, loginPc, logoutPc>>
    /\ UNCHANGED calcVars

ClickLogin ==
    /\ Ready
    /\ ~authUi
    /\ loginPc \in {"idle", "rejected"}
    /\ \E filled \in BOOLEAN :
          IF filled
          THEN loginPc' = "signIn" /\ UNCHANGED authStatus
          ELSE authStatus' = "Enter email and password."
                   /\ UNCHANGED loginPc
    /\ UNCHANGED <<investments, nextId, usingDatabase, localStore, db,
                   session, authUi, clock>>
    /\ UNCHANGED <<startPc, savePc, saveInputs, logoutPc, registerPc>>
    /\ UNCHANGED calcVars

\* await supabaseClient.auth.signInWithPassword(...) settles
LoginSignedIn ==
    /\ Ready
    /\ loginPc = "signIn"
    /\ \E failed \in BOOLEAN :
          IF failed
          THEN /\ authStatus' = "signIn: error.message"
               /\ loginPc' = "idle"
               /\ UNCHANGED <<usingDatabase, authUi, session>>
          ELSE /\ session' = TRUE
               /\ usingDatabase' = TRUE
               /\ authUi' = TRUE
               /\ authStatus' = "Logged in. Saving to database."
               /\ loginPc' = "loadDb"
    /\ UNCHANGED <<investments, nextId, localStore, db, clock>>
    /\ UNCHANGED <<startPc, savePc, saveInputs, logoutPc, registerPc>>
    /\ UNCHANGED calcVars

\* investments = await loadInvestmentsFromDb() settles; a rejection is caught
\* nowhere: the handler ends there, its promise rejected
LoginLoaded ==
    /\ Ready
    /\ loginPc = "loadDb"
    /\ \E ok \in BOOLEAN :
          IF ok
          THEN /\ investments' = sortByDateDesc(loadInvestmentsFromDb(db))
               /\ loginPc' = "idle"
          ELSE /\ investments' = investments
               /\ loginPc' = "rejected"
    /\ UNCHANGED <<nextId, usingDatabase, localStore, db, session, authUi,
                   authStatus, clock>>
    /\ UNCHANGED <<startPc, savePc, saveInputs, logoutPc, registerPc>>
    /\ UNCHANGED calcVars

ClickLogout ==
    /\ Ready
    /\ authUi
    /\ logoutPc = "idle"
    /\ logoutPc' = "signOut"
    /\ UNCHANGED storeVars
    /\ UNCHANGED <<startPc, savePc, saveInputs, loginPc, registerPc>>
    /\ UNCHANGED calcVars

\* await supabaseClient.auth.signOut() settles
LoggedOut ==
    /\ Ready
    /\ logoutPc = "signOut"
    /\ \E signedOut \in BOOLEAN : session' = (session /\ ~signedOut)
    /\ usingDatabase' = FALSE
    /\ authUi' = FALSE
    /\ authStatus' = "Not logged in. Saving locally."
    /\ investments' = sortByDateDesc(loadLocalInvestments(localStore))
    /\ nextId' = syncNextIdFromInvestments(loadLocalInvestments(localStore))
    /\ logoutPc' = "idle"
    /\ UNCHANGED <<localStore, db, clock>>
    /\ UNCHANGED <<startPc, savePc, saveInputs, loginPc, registerPc>>
    /\ UNCHANGED calcVars

\* ------------------------------------------------------------------------
\* The calculator alone: the page has loaded without a session and nothing
\* is saved; the form holds any of CalcForms.
\* ------------------------------------------------------------------------

IdleCalculator ==
    /\ error = ""
    /\ noDepBody = <<>>
    /\ depBody = <<>>
    /\ pc = "idle"
    /\ caller = "none"
    /\ call = NoCall
    /\ month = 0
    /\ openingBalance = Zero
    /\ interestSoFar = Zero
    /\ year = 0
    /\ results = <<>>
    /\ noDep = <<>>
    /\ interestLog = <<>>

InitCalc ==
    /\ form \in CalcForms
    /\ IdleCalculator
    /\ investments = <<>>
    /\ nextId = 1
    /\ usingDatabase = FALSE
    /\ localStore = <<>>
    /\ db = <<>>
    /\ session = FALSE
    /\ authUi = FALSE
    /\ authStatus = "Not logged in. Saving locally."
    /\ startPc = "calc"
    /\ savePc = "idle"
    /\ saveInputs = NoInputs
    /\ loginPc = "idle"
    /\ logoutPc = "idle"
    /\ registerPc = "idle"
    /\ clock = 0

NextCalc ==
    \/ StartupRunCalculation
    \/ Submit
    \/ Reset
    \/ Month
    \/ ReturnNoDep
    \/ ReturnDep

SpecCalc == InitCalc /\ [][NextCalc]_vars

\* ------------------------------------------------------------------------
\* The whole page: it is opened for the first time, with nothing in
\* localStorage and no session; the form holds any of SaveForms.
\* ------------------------------------------------------------------------

Init ==
    /\ form \in SaveForms
    /\ IdleCalculator
    /\ investments = <<>>
    /\ nextId = 1
    /\ usingDatabase = FALSE
    /\ localStore = <<>>
    /\ db \in InitialDbs
    /\ session = FALSE
    /\ authUi = FALSE
    /\ authStatus = ""
    /\ startPc = "getSession"
    /\ savePc = "idle"
    /\ saveInputs = NoInputs
    /\ loginPc = "idle"
    /\ logoutPc = "idle"
    /\ registerPc = "idle"
    /\ clock = 0

Next ==
    \/ StartupSession
    \/ StartupLoad
    \/ StartupRunCalculation
    \/ Month
    \/ ReturnNoDep
    \/ ReturnDep
    \/ Reload
    \/ ClickSave
    \/ SaveInserted
    \/ SaveLoaded
    \/ SortDate
    \/ SortAmount
    \/ ClickRegister
    \/ Registered
    \/ ClickLogin
    \/ LoginSignedIn
    \/ LoginLoaded
    \/ ClickLogout
    \/ LoggedOut

Spec == Init /\ [][Next]_vars

\* ------------------------------------------------------------------------
\* Properties of calculateSchedule
\* ------------------------------------------------------------------------

\* calculateSchedule is about to return "results"
AtReturn == pc = "loop" /\ month > totalMonths(call)

\* the sum of a sequence of Numbers, added from 0 in order
RECURSIVE SumOf(_)
SumOf(xs) ==
    IF xs = <<>> THEN Zero
    ELSE FAdd(SumOf(SubSeq(xs, 1, Len(xs) - 1)), xs[Len(xs)])

YearEndInterests == [k \in 1..Len(results) |-> results[k].yearEndInterest]

FiniteInputs ==
    /\ IsFinite(form.initial)
    /\ IsFinite(form.monthly)
    /\ IsFinite(form.rate)

\* C1: while calculateSchedule runs, one summary has been pushed for every
\* full 12 months done and none otherwise, the k-th summary has year = k, and
\* the sequence returned has exactly "years" entries (years taken from the form).
C1_YearsInOrder ==
    pc = "loop" =>
        /\ Len(results) = (month - 1) \div 12
        /\ \A k \in 1..Len(results) : results[k].year = k
        /\ AtReturn => Len(results) = ToNat(form.years)

C1_Witness ==
    /\ AtReturn
    /\ ToNat(form.years) >= 2
    /\ Len(results) = ToNat(form.years)
    /\ results[2].year = 2

C3_InterestSumEqualsTotal ==
    (AtReturn /\ FiniteInputs) =>
        FEq(SumOf(YearEndInterests), SumOf(interestLog))

\* C3 as amended: the k-th summary's yearEndInterest is the running sum, from
\* 0 and in month order, of the interest of months 12(k-1)+1 .. 12k alone, and
\* between summaries the accumulator holds the running sum of the months
\* since the last summary (0 right after one).
C3_InterestPerYear ==
    pc = "loop" =>
        /\ Len(interestLog) = month - 1
        /\ \A k \in 1..Len(results) :
               results[k].yearEndInterest
                   = SumOf(SubSeq(interestLog, 12 * (k - 1) + 1, 12 * k))
        /\ interestSoFar
               = SumOf(SubSeq(interestLog, 12 * Len(results) + 1,
                              Len(interestLog)))

C3_Witness ==
    /\ AtReturn
    /\ FiniteInputs
    /\ Len(results) >= 2
    /\ ~IsZero(results[2].yearEndInterest)
    /\ ~FEq(results[2].yearEndInterest, results[1].yearEndInterest)

IsCents(text, n) == text = [k |-> "fixed", cents |-> BFromNat(n)]

\* C4 as claimed: for 1000, 100, 5 %, 5 years with deposits, the first
\* year's balance is 2351.16 to the cent.
C4_FirstYear2351 ==
    (AtReturn /\ call.withDeposit /\ form = ResetForm) =>
        IsCents(money(results[1].yearEndBalance), 235116)

\* C4 as amended: for 1000, 100, 5 %, 5 years with deposits, the first
\* year's balance is 2284.16 to the cent: 1000 + 1200 of deposits + 84.16 of
\* interest, each month's interest being taken on openingBalance + deposit.
C4_FirstYear2284 ==
    (AtReturn /\ call.withDeposit /\ form = ResetForm) =>
        /\ IsCents(money(results[1].yearEndBalance), 228416)
        /\ IsCents(money(results[1].yearEndInterest), 8416)
        /\ interestLog[1]
               = FMul(FAdd(FromNat(1000), FromNat(100)),
                      FDivNat(FDivNat(FromNat(5), 100), 12))

C4_Witness ==
    /\ AtReturn
    /\ call.withDeposit
    /\ form = ResetForm
    /\ Len(results) = 5

\* C5 as claimed: calculateSchedule only ever runs with finite, non-negative
\* initial, monthly and rate and a whole number of years >= 1, and a rejected
\* form leaves an error message.
C5_OnlyValidInputsReachTheCore ==
    /\ pc = "loop" =>
           /\ IsFinite(call.initialInvestment)
           /\ ~FLt(call.initialInvestment, Zero)
           /\ IsFinite(call.monthlyDeposit)
           /\ ~FLt(call.monthlyDeposit, Zero)
           /\ IsFinite(call.annualInterestRate)
           /\ ~FLt(call.annualInterestRate, Zero)
           /\ call.years >= 1
    /\ (pc = "idle" /\ readInputs(form) # "" /\ startPc = "done"
            /\ form # ResetForm) => error # ""

\* C6: with rate 0 and no deposits, every summary returned has yearEndBalance
\* equal to the (finite) initial balance and yearEndInterest 0, whatever the
\* monthly deposit.
C6_ZeroRateIdentity ==
    (AtReturn /\ ~call.withDeposit /\ IsZero(form.rate)
        /\ IsFinite(form.initial)) =>
        \A k \in 1..Len(results) :
            /\ FEq(results[k].yearEndBalance, form.initial)
            /\ FEq(results[k].yearEndInterest, Zero)

C6_Witness ==
    /\ AtReturn
    /\ ~call.withDeposit
    /\ IsZero(form.rate)
    /\ form.initial = TenTo17
    /\ form.monthly = FromNat(100)
    /\ Len(results) = 2
    /\ results[2].yearEndBalance = TenTo17

\* ------------------------------------------------------------------------
\* Properties of the saved scenarios
\* ------------------------------------------------------------------------

Entries(list) == {list[i] : i \in 1..Len(list)}

\* the same entries, in any order
SameEntries(a, b) == Len(a) = Len(b) /\ Entries(a) = Entries(b)

LocalEntries == loadLocalInvestments(localStore)

NoHandlerPending ==
    /\ savePc = "idle"
    /\ loginPc \in {"idle", "rejected"}
    /\ logoutPc = "idle"
    /\ registerPc = "idle"

\* the ScenarioInput invariant
ValidScenario(x) ==
    /\ IsFinite(x.initial) /\ ~FLt(x.initial, Zero)
    /\ IsFinite(x.monthly) /\ ~FLt(x.monthly, Zero)
    /\ IsFinite(x.rate) /\ ~FLt(x.rate, Zero)
    /\ IsInteger(x.years) /\ FLt(Zero, x.years)

\* the last authentication step failed: the session check or the load after
\* it threw, the sign-in returned an error, or the load after the sign-in
\* was rejected
AuthStepFailed ==
    \/ authStatus = "Auth unavailable. Saving locally."
    \/ authStatus = "signIn: error.message"
    \/ loginPc = "rejected"

\* C7 as claimed: once an authentication step has failed and no script runs,
\* the status text reports a failure, usingDatabase is false and the
\* collection is the one held in local storage.
C7_AuthFailureFallsBackToLocal ==
    (pc = "idle" /\ startPc = "done" /\ AuthStepFailed) =>
        /\ authStatus \in {"Auth unavailable. Saving locally.",
                          "signIn: error.message"}
        /\ ~usingDatabase
        /\ SameEntries(investments, LocalEntries)

\* C8 as claimed: every scenario in the collection, in local storage and in
\* the remote table has finite initial, monthly and rate >= 0 and a whole
\* number of years >= 1.
C8_StoredScenariosAreValid ==
    /\ \A x \in Entries(investments) : ValidScenario(x)
    /\ \A x \in Entries(LocalEntries) : ValidScenario(x)
    /\ \A x \in Entries(db) : ValidScenario(x)

\* C9 as claimed: when no handler is pending and usingDatabase is false, the
\* collection holds exactly the scenarios of local storage.
C9_LocalModeShowsLocalStore ==
    (Ready /\ NoHandlerPending /\ ~usingDatabase) =>
        SameEntries(investments, LocalEntries)

\* C10 as claimed: the ids in local storage are pairwise distinct, and where
\* a local save can run nextId is greater than every id in the collection.
C10_LocalIdsDistinct ==
    /\ \A i, j \in 1..Len(LocalEntries) :
           LocalEntries[i].id = LocalEntries[j].id => i = j
    /\ (Ready /\ ~usingDatabase) => nextId > maxIdOf(investments)

=============================================================================
